---- MODULE Spec2Model ----
(***************************************************************************)
(* A model of keys/wordcodec.go: the base-2048 word codec (WordCodec) with *)
(* its word bank, the lazily built reverse index (GetIndex), the length    *)
(* formulas (wordlenFromBytes, bytelenFromWords) and the two conversions   *)
(* BytesToWords and WordsToBytes.                                          *)
(*                                                                         *)
(* A byte buffer is a sequence of numbers in 0..255.  A big.Int is its     *)
(* big-endian byte sequence without leading zero bytes (what SetBytes      *)
(* stores and Bytes returns), so no machine-integer width limits it.       *)
(* A word is a string.  An error is a record; NoErr is Go's nil error.     *)
(* A Go run-time panic (slice bounds out of range) is the outcome "panic". *)
(***************************************************************************)
EXTENDS Integers, Sequences, FiniteSets, TLC

VARIABLES
    bank,     \* the word list NewCodec was called with
    codec,    \* the WordCodec value NewCodec returned
    newErr,   \* the error NewCodec returned
    pc,       \* the caller: "new", "failed", "ready", "words", "done"; "len"; "conc"
    raw,      \* the buffer last given to BytesToWords
    words,    \* the word sequence in hand (encoded, substituted or typed in)
    origin,   \* where `words` comes from: "none", "encoded", "substituted", "typed"
    subst,    \* the substitution made: [pos, old, new]
    encErr,   \* the error BytesToWords returned
    res,      \* what WordsToBytes did with `words`: [status, output, err, checks]
    idx,      \* what the last GetIndex call returned: [called, word, rem, err]
    lenIn,    \* argument of the last length-formula call
    lenOut,   \* its result: [fn, n, length, maybeShorter]
    calls     \* the concurrent calls in progress, one per thread

vars == <<bank, codec, newErr, pc, raw, words, origin, subst, encErr, res, idx,
          lenIn, lenOut, calls>>

-----------------------------------------------------------------------------
(* Program constants and the bounds of the model. *)

BankSize == 2048

\* the longest raw buffer given to BytesToWords
MaxLen == 3
\* the largest byte length / word count given to the length formulas
MaxCount == 120

\* the byte values the raw buffers are drawn from
ByteVals == {0, 255}

RECURSIVE SeqsUpTo(_, _)
SeqsUpTo(S, n) ==
    IF n = 0 THEN {<<>>}
    ELSE LET shorter == SeqsUpTo(S, n - 1)
         IN shorter \cup {Append(s, x) : s \in {t \in shorter : Len(t) = n - 1}, x \in S}

Buffers == SeqsUpTo(ByteVals, MaxLen)

-----------------------------------------------------------------------------
(* Errors. *)

NoErr == [kind |-> "nil", word |-> "", found |-> 0]
ErrBankSize(n) == [kind |-> "Bank must have BankSize words", word |-> "", found |-> n]
ErrDuplicate(w) == [kind |-> "Duplicate word in list", word |-> w, found |-> 0]
ErrUnrecognized(w) == [kind |-> "Unrecognized word", word |-> w, found |-> 0]
ErrChecksum == [kind |-> "ChecksumMismatch", word |-> "", found |-> 0]

-----------------------------------------------------------------------------
(* Go's integer division truncates toward zero. *)

GoDiv(a, b) == IF a >= 0 THEN a \div b ELSE -((-a) \div b)

\* wordlenFromBytes without the +10 that rounds up
MutWordlenFromBytes(numBytes) == GoDiv(8 * numBytes, 11)
(* given this many bytes, we will produce this many words *)
wordlenFromBytes(numBytes) == GoDiv(8 * numBytes + 10, 11)

\* bytelenFromWords that never sets maybeShorter
MutBytelenFromWords(numWords) ==
    LET length == GoDiv(11 * numWords, 8)
    IN [length |-> length, maybeShorter |-> FALSE]
(* given this many words, we will produce this many bytes; *)
(* if maybeShorter is true, then represents len OR len-1 bytes *)
bytelenFromWords(numWords) ==
    LET length == GoDiv(11 * numWords, 8)
    IN [length |-> length,
        maybeShorter |-> (wordlenFromBytes(length - 1) = numWords)]

-----------------------------------------------------------------------------
(* math/big on non-negative numbers, as the codec uses it. *)

RECURSIVE StripZeros(_)
StripZeros(s) ==
    IF s # <<>> /\ Head(s) = 0 THEN StripZeros(Tail(s)) ELSE s

\* big.Int.SetBytes: the buffer read as a big-endian unsigned integer
SetBytes(buf) == StripZeros(buf)

\* big.Int.Bytes: the absolute value as a big-endian byte slice
Bytes(x) == x

\* big.Int.DivMod(x, d) for a small divisor d: schoolbook long division
RECURSIVE LongDiv(_, _, _, _)
LongDiv(x, d, carry, quo) ==
    IF x = <<>> THEN [quo |-> StripZeros(quo), rem |-> carry]
    ELSE LET cur == carry * 256 + Head(x)
         IN LongDiv(Tail(x), d, cur % d, Append(quo, cur \div d))
DivMod(x, d) == LongDiv(x, d, 0, <<>>)

\* x*m + a for small m and a, least significant byte first
RECURSIVE MulAddRev(_, _, _, _)
MulAddRev(x, m, carry, out) ==
    IF x = <<>>
    THEN IF carry = 0 THEN out ELSE MulAddRev(<<>>, m, carry \div 256, <<carry % 256>> \o out)
    ELSE LET cur == x[Len(x)] * m + carry
         IN MulAddRev(SubSeq(x, 1, Len(x) - 1), m, cur \div 256, <<cur % 256>> \o out)
\* big.Int.Mul followed by big.Int.Add
MulAdd(x, m, a) == StripZeros(MulAddRev(x, m, a, <<>>))

-----------------------------------------------------------------------------
(* The checksum capability c.check: NewIEEECRC32().  A 32-bit register is   *)
(* the set of its one bits.                                                *)

CRC32Size == 4
IEEEPoly == {31, 30, 29, 27, 26, 24, 23, 21, 20, 19, 15, 9, 8, 5}  \* 0xEDB88320

Xor(A, B) == (A \ B) \cup (B \ A)
BitsOf(b) == {i \in 0..7 : (b \div (2 ^ i)) % 2 = 1}
ShiftRight(S) == {i - 1 : i \in S \ {0}}

RECURSIVE CrcBits(_, _)
CrcBits(S, k) ==
    IF k = 0 THEN S
    ELSE CrcBits(IF 0 \in S THEN Xor(ShiftRight(S), IEEEPoly) ELSE ShiftRight(S), k - 1)

RECURSIVE CrcUpdate(_, _)
CrcUpdate(S, data) ==
    IF data = <<>> THEN S
    ELSE CrcUpdate(CrcBits(Xor(S, BitsOf(Head(data))), 8), Tail(data))

RECURSIVE BitSum(_, _)
BitSum(S, base) ==
    IF S = {} THEN 0
    ELSE LET i == CHOOSE j \in S : TRUE
         IN 2 ^ (i - base) + BitSum(S \ {i}, base)

\* crc32.Checksum(data, IEEETable), as its four big-endian bytes
Checksum(data) ==
    LET S == (0..31) \ CrcUpdate(0..31, data)
    IN [k \in 1..CRC32Size |->
           BitSum({i \in S : i \div 8 = CRC32Size - k}, 8 * (CRC32Size - k))]

\* ECC.AddECC: the buffer with its integrity code appended
AddECC(buf) == buf \o Checksum(buf)

\* ECC.CheckECC: verify and strip the integrity code
CheckECC(buf) ==
    IF Len(buf) < CRC32Size
    THEN [output |-> <<>>, err |-> ErrChecksum]
    ELSE LET cut == Len(buf) - CRC32Size
             data == SubSeq(buf, 1, cut)
         IN IF SubSeq(buf, cut + 1, Len(buf)) = Checksum(data)
            THEN [output |-> data, err |-> NoErr]
            ELSE [output |-> <<>>, err |-> ErrChecksum]

-----------------------------------------------------------------------------
(* Word banks. *)

Word(i) == "w" \o ToString(i)

\* a bank of n distinct words; Word(i) sits at Go index i
BankOf(n) == [i \in 1..n |-> Word(i - 1)]
GoodBank == BankOf(BankSize)
\* the bank with the entry at Go index j overwritten by the one at Go index i
WithRepeat(list, i, j) == [list EXCEPT ![j + 1] = list[i + 1]]

\* the banks NewCodec is called with
Banks ==
    { GoodBank,
      WithRepeat(GoodBank, 0, 1),
      WithRepeat(GoodBank, 7, BankSize - 1),
      WithRepeat(WithRepeat(GoodBank, 2000, 2001), 3, 5),
      <<>>,
      BankOf(BankSize - 1),
      BankOf(BankSize + 1),
      WithRepeat(BankOf(BankSize + 1), 0, 1),
      WithRepeat(BankOf(BankSize - 1), 0, 1) }

Range(s) == {s[i] : i \in DOMAIN s}
HasRepeat(s) == Cardinality(Range(s)) # Len(s)

-----------------------------------------------------------------------------
(* type WordCodec struct { words []string; bytes map[string]int; check ECC } *)

\* A map[string]int b filled by `b[w] = i` for i = 0, 1, ... is kept as the
\* set of its keys and the sequence of its keys in the order of their values.
NilMap == [isNil |-> TRUE, keys |-> {}, at |-> <<>>]
ZeroCodec == [words |-> <<>>, bytes |-> NilMap, check |-> "nil"]

\* NewCodec without the test of the bank's length
MutNewCodec(list) ==
    [codec |-> [words |-> list, bytes |-> NilMap, check |-> "IEEECRC32"],
     err |-> NoErr]
NewCodec(list) ==
    IF Len(list) # BankSize
    THEN [codec |-> ZeroCodec, err |-> ErrBankSize(Len(list))]
    ELSE [codec |-> [words |-> list, bytes |-> NilMap, check |-> "IEEECRC32"],
          err |-> NoErr]

\* The loop of GetIndex stops at the first i whose word is already in b: the
\* least i such that words[0..i] holds a repeat.  Found by bisection between
\* a repeat-free prefix of length lo and a prefix of length hi with a repeat.
RECURSIVE FirstRepeat(_, _, _)
FirstRepeat(list, lo, hi) ==
    IF hi = lo + 1 THEN hi
    ELSE LET mid == (lo + hi) \div 2
         IN IF HasRepeat(SubSeq(list, 1, mid))
            THEN FirstRepeat(list, lo, mid)
            ELSE FirstRepeat(list, mid, hi)

\* map generation without the duplicate test
MutGenerateMap(list) ==
    [err |-> NoErr, b |-> [isNil |-> FALSE, keys |-> Range(list), at |-> list]]
\* The map GetIndex generates, or the error it returns meanwhile.
GenerateMap(list) ==
    LET keys == Range(list)
    IN IF Cardinality(keys) # Len(list)
       THEN [err |-> ErrDuplicate(list[FirstRepeat(list, 0, Len(list))]), b |-> NilMap]
       ELSE [err |-> NoErr, b |-> [isNil |-> FALSE, keys |-> keys, at |-> list]]

\* rem, ok := c.bytes[word]
Lookup(b, word) ==
    IF word \in b.keys
    THEN [rem |-> (CHOOSE i \in DOMAIN b.at : b.at[i] = word) - 1, ok |-> TRUE]
    ELSE [rem |-> 0, ok |-> FALSE]

\* GetIndex that reads an unknown word as digit 0
MutGetIndex(c, word) ==
    LET gen == GenerateMap(c.words)
        got == Lookup(gen.b, word)
    IN IF gen.err # NoErr THEN [rem |-> -1, err |-> gen.err]
       ELSE [rem |-> got.rem, err |-> NoErr]
\* GetIndex finds the index of the word: [rem, err]
GetIndex(c, word) ==
    LET gen == IF c.bytes.isNil THEN GenerateMap(c.words)
               ELSE [err |-> NoErr, b |-> c.bytes]
        got == Lookup(gen.b, word)
    IN IF gen.err # NoErr THEN [rem |-> -1, err |-> gen.err]
       ELSE IF ~got.ok THEN [rem |-> -1, err |-> ErrUnrecognized(word)]
            ELSE [rem |-> got.rem, err |-> NoErr]

\* GetIndex with a pointer receiver: `c.bytes = b` reaches the caller's codec
MutReceiverAfterGetIndex(c) ==
    LET gen == GenerateMap(c.words)
    IN IF c.bytes.isNil /\ gen.err = NoErr THEN [c EXCEPT !.bytes = gen.b] ELSE c
\* The codec value the caller holds after c.GetIndex(word) returned: the
\* receiver is passed by value, so `c.bytes = b` is made on GetIndex's copy.
ReceiverAfterGetIndex(c) == c

-----------------------------------------------------------------------------
(* BytesToWords: [words, err] *)

\* lines 110-118, one pass of the loop: [nData, words, err]
EncodeStep(c, nData, out) ==
    LET qr == DivMod(nData, BankSize)
        w == c.words[qr.rem + 1]
        got == GetIndex(c, w)       \* double-check bank on generation...
    IN [nData |-> qr.quo, words |-> Append(out, w), err |-> got.err]

RECURSIVE EncodeLoop(_, _, _, _, _)
EncodeLoop(c, nData, i, numWords, out) ==
    IF ~(i < numWords) THEN [words |-> out, err |-> NoErr]
    ELSE LET step == EncodeStep(c, nData, out)
         IN IF step.err # NoErr THEN [words |-> <<>>, err |-> step.err]
            ELSE EncodeLoop(c, step.nData, i + 1, numWords, step.words)

BytesToWords(c, buf) ==
    LET data == AddECC(buf)
        numWords == wordlenFromBytes(Len(data))
    IN EncodeLoop(c, SetBytes(data), 0, numWords, <<>>)

-----------------------------------------------------------------------------
(* WordsToBytes: [status, output, err], status "ok", "err" or "panic" *)

\* `checks` counts the CheckECC calls made
Returned(output, err, checks) ==
    [status |-> IF err = NoErr THEN "ok" ELSE "err", output |-> output, err |-> err,
     checks |-> checks]
Panicked(checks) == [status |-> "panic", output |-> <<>>, err |-> NoErr, checks |-> checks]

Zeros(n) == [k \in 1..n |-> 0]

\* lines 130-136, one pass of the loop: [nData, err]
DecodeStep(c, ws, i, nData) ==
    LET got == GetIndex(c, ws[Len(ws) - i + 1])
    IN IF got.err # NoErr THEN [nData |-> <<>>, err |-> got.err]
       ELSE [nData |-> MulAdd(nData, BankSize, got.rem), err |-> NoErr]

\* lines 129-137: the words loaded in reverse order; [nData, err]
RECURSIVE DecodeLoop(_, _, _, _)
DecodeLoop(c, ws, i, nData) ==
    IF ~(i <= Len(ws)) THEN [nData |-> nData, err |-> NoErr]
    ELSE LET step == DecodeStep(c, ws, i, nData)
         IN IF step.err # NoErr THEN step
            ELSE DecodeLoop(c, ws, i + 1, step.nData)

\* the validation without the retry on the buffer one byte shorter
MutCheckDecoded(dataBytes, numWords) ==
    LET outLen == bytelenFromWords(numWords).length
        toCheck == Zeros(outLen - Len(dataBytes)) \o dataBytes
        first == CheckECC(toCheck)
    IN IF outLen - Len(dataBytes) < 0 THEN Panicked(0)
       ELSE Returned(first.output, first.err, 1)
\* lines 141-156: copy into the expected size and validate the checksum
CheckDecoded(dataBytes, numWords) ==
    LET bl == bytelenFromWords(numWords)
        outLen == bl.length
        flex == bl.maybeShorter
        toCheck == Zeros(outLen - Len(dataBytes)) \o dataBytes
        first == CheckECC(toCheck)
    IN IF outLen - Len(dataBytes) < 0 THEN Panicked(0)   \* toCheck[outLen-len(dataBytes):]
       ELSE IF flex /\ first.err # NoErr
            THEN IF Len(toCheck) < 1 THEN Panicked(1)   \* toCheck[1:]
                 ELSE LET second == CheckECC(Tail(toCheck))
                      IN Returned(second.output, second.err, 2)
            ELSE Returned(first.output, first.err, 1)

WordsToBytes(c, ws) ==
    LET loaded == DecodeLoop(c, ws, 1, <<>>)
    IN IF loaded.err # NoErr THEN Returned(<<>>, loaded.err, 0)
       ELSE CheckDecoded(Bytes(loaded.nData), Len(ws))

-----------------------------------------------------------------------------
(* The inputs of the calls. *)

\* the digit values a substituted word is drawn from
SubstDigits == {0, 1, 2, 1024, BankSize - 1}

\* the strings typed in as words: bank words and strings in no bank
TypedWords == {Word(0), Word(1), Word(1024), Word(BankSize - 1), "zebra", ""}
\* the longest typed-in word sequence
MaxTyped == 2
Typed == SeqsUpTo(TypedWords, MaxTyped)

NoSubst == [pos |-> 0, old |-> "", new |-> ""]
NoRes == [status |-> "none", output |-> <<>>, err |-> NoErr, checks |-> 0]
NoIdx == [called |-> FALSE, word |-> "", rem |-> 0, err |-> NoErr]
NoLen == [fn |-> "none", numWords |-> 0, length |-> 0, maybeShorter |-> FALSE]

\* the threads that share one codec
NumThreads == 2
Threads == 1..NumThreads
Idle == [pc |-> "idle", op |-> "none", buf |-> <<>>, ws |-> <<>>, bytes |-> NilMap,
         i |-> 0, nData |-> <<>>, out |-> <<>>, rem |-> 0, err |-> NoErr,
         status |-> "none"]

InitCommon ==
    /\ newErr = NoErr
    /\ raw = <<>>
    /\ words = <<>>
    /\ origin = "none"
    /\ subst = NoSubst
    /\ encErr = NoErr
    /\ res = NoRes
    /\ idx = NoIdx
    /\ lenIn = 0
    /\ lenOut = NoLen
    /\ calls = [t \in Threads |-> Idle]

-----------------------------------------------------------------------------
(* Spec: one caller constructs a codec and uses it. *)

Init == InitCommon /\ bank = <<>> /\ codec = ZeroCodec /\ pc = "new"

CallNewCodec(list) ==
    /\ pc = "new"
    /\ bank' = list
    /\ LET r == NewCodec(list)
       IN /\ codec' = r.codec
          /\ newErr' = r.err
          /\ pc' = IF r.err = NoErr THEN "ready" ELSE "failed"
    /\ UNCHANGED <<raw, words, origin, subst, encErr, res, idx, lenIn, lenOut, calls>>

CallBytesToWords(buf) ==
    /\ pc = "ready"
    /\ LET r == BytesToWords(codec, buf)
       IN /\ words' = r.words
          /\ encErr' = r.err
    /\ raw' = buf
    /\ origin' = "encoded"
    /\ pc' = "words"
    /\ UNCHANGED <<bank, codec, newErr, subst, res, idx, lenIn, lenOut, calls>>

\* a different valid word is put at one position of an encoded sequence
Substitute(i, d) ==
    /\ pc = "words"
    /\ origin = "encoded"
    /\ encErr = NoErr
    /\ i \in 1..Len(words)
    /\ codec.words[d + 1] # words[i]
    /\ words' = [words EXCEPT ![i] = codec.words[d + 1]]
    /\ subst' = [pos |-> i, old |-> words[i], new |-> codec.words[d + 1]]
    /\ origin' = "substituted"
    /\ UNCHANGED <<bank, codec, newErr, pc, raw, encErr, res, idx, lenIn, lenOut, calls>>

\* the caller comes with a word sequence of its own
TypeWords(ws) ==
    /\ pc = "ready"
    /\ words' = ws
    /\ origin' = "typed"
    /\ pc' = "words"
    /\ UNCHANGED <<bank, codec, newErr, raw, subst, encErr, res, idx, lenIn, lenOut, calls>>

CallWordsToBytes ==
    /\ pc = "words"
    /\ encErr = NoErr
    /\ res' = WordsToBytes(codec, words)
    /\ pc' = "done"
    /\ UNCHANGED <<bank, codec, newErr, raw, words, origin, subst, encErr, idx, lenIn, lenOut, calls>>

CallGetIndex(w) ==
    /\ pc = "ready"
    /\ LET r == GetIndex(codec, w)
       IN idx' = [called |-> TRUE, word |-> w, rem |-> r.rem, err |-> r.err]
    /\ codec' = ReceiverAfterGetIndex(codec)
    /\ pc' = "done"
    /\ UNCHANGED <<bank, newErr, raw, words, origin, subst, encErr, res, lenIn, lenOut, calls>>

\* the codec is used again
Again ==
    /\ pc \in {"words", "done"}
    /\ pc' = "ready"
    /\ raw' = <<>>
    /\ words' = <<>>
    /\ origin' = "none"
    /\ subst' = NoSubst
    /\ encErr' = NoErr
    /\ res' = NoRes
    /\ idx' = NoIdx
    /\ UNCHANGED <<bank, codec, newErr, lenIn, lenOut, calls>>

Next ==
    \/ \E list \in Banks : CallNewCodec(list)
    \/ \E buf \in Buffers : CallBytesToWords(buf)
    \/ \E i \in 1..Len(words), d \in SubstDigits : Substitute(i, d)
    \/ \E ws \in Typed : TypeWords(ws)
    \/ CallWordsToBytes
    \/ \E w \in TypedWords : CallGetIndex(w)
    \/ Again

Spec == Init /\ [][Next]_vars

-----------------------------------------------------------------------------
(* SpecLen: the length formulas, as encoder and decoder apply them in turn. *)

InitLen == InitCommon /\ bank = <<>> /\ codec = ZeroCodec /\ pc = "len"

\* BytesToWords line 102, on a buffer of n bytes
CallWordlenFromBytes(n) ==
    /\ pc = "len"
    /\ lenOut.fn = "none"
    /\ lenIn' = n
    /\ lenOut' = [fn |-> "wordlenFromBytes", numWords |-> wordlenFromBytes(n),
                  length |-> 0, maybeShorter |-> FALSE]
    /\ UNCHANGED <<bank, codec, newErr, pc, raw, words, origin, subst, encErr, res, idx, calls>>

\* WordsToBytes line 144, on that many words
CallBytelenFromWords ==
    /\ pc = "len"
    /\ lenOut.fn = "wordlenFromBytes"
    /\ LET r == bytelenFromWords(lenOut.numWords)
       IN lenOut' = [fn |-> "bytelenFromWords", numWords |-> lenOut.numWords,
                     length |-> r.length, maybeShorter |-> r.maybeShorter]
    /\ UNCHANGED <<bank, codec, newErr, pc, raw, words, origin, subst, encErr, res, idx,
                   lenIn, calls>>

NextLen ==
    \/ \E n \in 0..MaxCount : CallWordlenFromBytes(n)
    \/ CallBytelenFromWords

SpecLen == InitLen /\ [][NextLen]_vars

-----------------------------------------------------------------------------
(* SpecConc: several threads call the methods of one constructed codec.    *)
(* A method receives the codec by value: the map field is copied, the word *)
(* slice still refers to the codec's word array.  One step of a thread is  *)
(* one GetIndex call or the return of the method.                          *)

\* the calls the threads make: [op, buf, ws]
ConcOps ==
    { [op |-> "GetIndex", buf |-> <<>>, ws |-> <<Word(1)>>],
      [op |-> "BytesToWords", buf |-> <<>>, ws |-> <<>>],
      [op |-> "WordsToBytes", buf |-> <<>>, ws |-> <<Word(0), Word(0), Word(0)>>] }

InitConc ==
    /\ InitCommon
    /\ bank = GoodBank
    /\ codec = NewCodec(GoodBank).codec
    /\ pc = "conc"

\* the receiver as thread t's method sees it
Receiver(t) == [codec EXCEPT !.bytes = calls[t].bytes]

StartCall(t, o) ==
    /\ pc = "conc"
    /\ calls[t].pc = "idle"
    /\ calls' = [calls EXCEPT ![t] =
          [Idle EXCEPT !.pc = "running", !.op = o.op, !.buf = o.buf, !.ws = o.ws,
                       !.bytes = codec.bytes,
                       !.i = IF o.op = "WordsToBytes" THEN 1 ELSE 0,
                       !.nData = IF o.op = "BytesToWords" THEN SetBytes(AddECC(o.buf))
                                 ELSE <<>>]]
    /\ UNCHANGED <<bank, codec, newErr, pc, raw, words, origin, subst, encErr, res, idx,
                   lenIn, lenOut>>

\* a caller's own c.GetIndex(word)
StepGetIndex(t) ==
    /\ calls[t].pc = "running"
    /\ calls[t].op = "GetIndex"
    /\ LET r == GetIndex(codec, calls[t].ws[1])
       IN calls' = [calls EXCEPT ![t].pc = "done", ![t].rem = r.rem, ![t].err = r.err,
                                 ![t].status = IF r.err = NoErr THEN "ok" ELSE "err"]
    /\ codec' = ReceiverAfterGetIndex(codec)
    /\ UNCHANGED <<bank, newErr, pc, raw, words, origin, subst, encErr, res, idx,
                   lenIn, lenOut>>

\* one pass of the loop of BytesToWords, or its return
StepBytesToWords(t) ==
    /\ calls[t].pc = "running"
    /\ calls[t].op = "BytesToWords"
    /\ LET me == calls[t]
           numWords == wordlenFromBytes(Len(AddECC(me.buf)))
       IN IF me.i < numWords
          THEN LET step == EncodeStep(Receiver(t), me.nData, me.out)
               IN calls' = [calls EXCEPT ![t] =
                     IF step.err # NoErr
                     THEN [me EXCEPT !.pc = "done", !.out = <<>>, !.err = step.err,
                                     !.status = "err"]
                     ELSE [me EXCEPT !.i = me.i + 1, !.nData = step.nData,
                                     !.out = step.words,
                                     !.bytes = ReceiverAfterGetIndex(Receiver(t)).bytes]]
          ELSE calls' = [calls EXCEPT ![t].pc = "done", ![t].status = "ok"]
    /\ UNCHANGED <<bank, codec, newErr, pc, raw, words, origin, subst, encErr, res, idx,
                   lenIn, lenOut>>

\* one pass of the loop of WordsToBytes, or its checksum validation and return
StepWordsToBytes(t) ==
    /\ calls[t].pc = "running"
    /\ calls[t].op = "WordsToBytes"
    /\ LET me == calls[t]
       IN IF me.i <= Len(me.ws)
          THEN LET step == DecodeStep(Receiver(t), me.ws, me.i, me.nData)
               IN calls' = [calls EXCEPT ![t] =
                     IF step.err # NoErr
                     THEN [me EXCEPT !.pc = "done", !.err = step.err, !.status = "err"]
                     ELSE [me EXCEPT !.i = me.i + 1, !.nData = step.nData,
                                     !.bytes = ReceiverAfterGetIndex(Receiver(t)).bytes]]
          ELSE LET r == CheckDecoded(Bytes(me.nData), Len(me.ws))
               IN calls' = [calls EXCEPT ![t].pc = "done", ![t].out = r.output,
                                         ![t].err = r.err, ![t].status = r.status]
    /\ UNCHANGED <<bank, codec, newErr, pc, raw, words, origin, subst, encErr, res, idx,
                   lenIn, lenOut>>

NextConc ==
    \/ \E t \in Threads, o \in ConcOps : StartCall(t, o)
    \/ \E t \in Threads : StepGetIndex(t)
    \/ \E t \in Threads : StepBytesToWords(t)
    \/ \E t \in Threads : StepWordsToBytes(t)

SpecConc == InitConc /\ [][NextConc]_vars

-----------------------------------------------------------------------------
(* Properties of the codec under Spec. *)

\* the codec in hand was built from a 2048-word bank without duplicates
SoundBank == pc # "new" /\ Len(bank) = BankSize /\ ~HasRepeat(bank)
\* the codec in hand was built from a 2048-word bank with a repeated word
RepeatBank == pc # "new" /\ Len(bank) = BankSize /\ HasRepeat(bank)

Decoded == pc = "done" /\ res.status # "none"
InBank(w) == \E i \in DOMAIN codec.words : codec.words[i] = w
Occurrences(w) == Cardinality({i \in DOMAIN bank : bank[i] = w})

\* C1 (round trip): on a codec built from a 2048-word bank without
\* duplicates, BytesToWords(b) returns no error and WordsToBytes of its words
\* returns exactly b and no error, for every buffer b (the empty one and
\* those with leading zero bytes included).
RoundTrip ==
    SoundBank =>
      /\ origin = "encoded" => encErr = NoErr /\ Len(words) = wordlenFromBytes(Len(raw) + CRC32Size)
      /\ (Decoded /\ origin = "encoded") =>
            res.status = "ok" /\ res.output = raw /\ res.err = NoErr

\* a buffer with leading zero bytes whose augmented length is one less than
\* the candidate length has made the round trip
RoundTripWitness ==
    /\ SoundBank /\ Decoded /\ origin = "encoded"
    /\ raw = <<0, 0, 255>>
    /\ bytelenFromWords(Len(words)).length = Len(raw) + CRC32Size + 1
    /\ res.output = raw

\* C2 (tamper detection), as claimed: after one word of an encoded sequence
\* is replaced by a different bank word, WordsToBytes fails with the
\* checksum-mismatch error and returns no bytes.
TamperDetected ==
    (SoundBank /\ Decoded /\ origin = "substituted") =>
        res.status = "err" /\ res.err = ErrChecksum

EmptySequenceFails ==
    (SoundBank /\ Decoded /\ words = <<>>) =>
        res.status = "err" /\ res.err # NoErr

BankSizeChecked ==
    pc # "new" =>
        /\ Len(bank) # BankSize =>
              pc = "failed" /\ newErr = ErrBankSize(Len(bank)) /\ codec = ZeroCodec
        /\ (Len(bank) = BankSize /\ ~HasRepeat(bank)) =>
              pc # "failed" /\ newErr = NoErr /\ codec.words = bank

\* a bank of 2049 words was refused
BankSizeWitness ==
    pc = "failed" /\ Len(bank) = BankSize + 1 /\ newErr.found = BankSize + 1

\* C9 (decode is total), as claimed: for a non-empty sequence of bank words
\* the rendered integer fits the candidate length, so WordsToBytes returns
\* bytes or an error and never aborts.
DecodeTotal ==
    (SoundBank /\ Decoded /\ words # <<>> /\ \A i \in DOMAIN words : InBank(words[i])) =>
        res.status \in {"ok", "err"}

-----------------------------------------------------------------------------
(* Properties of the length formulas under SpecLen. *)

\* the least k with b*k >= a, and the greatest k with b*k <= a
CeilDiv(a, b) == CHOOSE k \in (-1)..(IF a < 0 THEN 0 ELSE a) : b * k >= a /\ b * (k - 1) < a
FloorDiv(a, b) == CHOOSE k \in 0..a : b * k <= a /\ b * (k + 1) > a

\* C7 (word-count formulas): wordlenFromBytes(n) is ceil(8n/11) for every
\* n >= 0; bytelenFromWords(w) returns the length floor(11w/8), and
\* maybeShorter exactly when floor(11w/8) - 1 bytes would also take w words.
WordCountFormulas ==
    /\ lenOut.fn # "none" => lenOut.numWords = CeilDiv(8 * lenIn, 11)
    /\ lenOut.fn = "bytelenFromWords" =>
          /\ lenOut.length = FloorDiv(11 * lenOut.numWords, 8)
          /\ lenOut.maybeShorter <=> (CeilDiv(8 * (lenOut.length - 1), 11) = lenOut.numWords)

\* seven bytes take six words, and six words hold eight bytes or seven
WordCountWitness ==
    /\ lenOut.fn = "bytelenFromWords" /\ lenIn = 7
    /\ lenOut.numWords = 6 /\ lenOut.length = 8 /\ lenOut.maybeShorter

\* C10 (length recovery): for every augmented length n >= 1, with
\* (L, flex) = bytelenFromWords(wordlenFromBytes(n)), either n = L, or
\* n = L - 1 and flex holds.
LengthRecovery ==
    (lenOut.fn = "bytelenFromWords" /\ lenIn >= 1) =>
        \/ lenIn = lenOut.length
        \/ lenIn = lenOut.length - 1 /\ lenOut.maybeShorter

\* a length recovered only as the shorter of the two hypotheses
LengthRecoveryWitness ==
    /\ lenOut.fn = "bytelenFromWords" /\ lenIn = 18
    /\ lenOut.length = lenIn + 1 /\ lenOut.maybeShorter

-----------------------------------------------------------------------------
(* Properties of concurrent use under SpecConc. *)

\* what each call returns when it runs alone on a freshly built codec
AloneResult(o) ==
    LET fresh == NewCodec(GoodBank).codec
    IN IF o.op = "GetIndex"
       THEN LET r == GetIndex(fresh, o.ws[1])
            IN [out |-> <<>>, rem |-> r.rem, err |-> r.err]
       ELSE IF o.op = "BytesToWords"
            THEN LET r == BytesToWords(fresh, o.buf)
                 IN [out |-> r.words, rem |-> 0, err |-> r.err]
            ELSE LET r == WordsToBytes(fresh, o.ws)
                 IN [out |-> r.output, rem |-> 0, err |-> r.err]
Alone == [o \in ConcOps |-> AloneResult(o)]

====
